---- MODULE Spec2Model ----
(***************************************************************************)
(* Model of invenio-bulk-importer: the importer task / importer record     *)
(* state machine (services/tasks.py, services/services.py,                 *)
(* services/states.py, records/api.py) and the upsert/publish orchestrator *)
(* (record_types/rdm.py, record_types/base.py).                            *)
(*                                                                         *)
(* One importer task is modelled.  Its source file is a sequence of rows;  *)
(* Celery units (validate one row, run one record, finalize the task) are  *)
(* messages that any worker may pick up in any order.                      *)
(*                                                                         *)
(* Call sites and callees are modelled by the callee body found in the     *)
(* source: serializer.transform(..., mode=), get_records(status_list=) and *)
(* _verify_record_exists(..., required=) pass a keyword the callee bodies  *)
(* in records/api.py, serializers/records/csv.py and record_types/base.py  *)
(* do not read; the bodies are modelled as written.                        *)
(***************************************************************************)
EXTENDS Integers, Sequences, FiniteSets, TLC

\* ------------------------------------------------------------------------
\* Bounds of the model
\* ------------------------------------------------------------------------
MaxRows == 2

MaxStatusUpdates == 2

MaxStartRuns == 1

MaxRepo == 4

MaxBeginValidations == 1

MaxFailures == 1

MaxRepeatedValidations == 2

MaxCount == 2

\* ------------------------------------------------------------------------
\* services/states.py
\* ------------------------------------------------------------------------
ImporterRecordState ==
    { "created", "validating", "serializer validation failed",
      "validation failed", "validated", "import failed", "success" }

ImporterTaskState ==
    { "created", "validating", "validated with failures", "validated",
      "importing", "imported with failures", "success", "damaged" }

\* A records_status dictionary: one count per record status (a key that the
\* GROUP BY query does not return reads as 0, as record_states.get(k, 0)
\* does) and the key total_records.
StatusKeys == ImporterRecordState \cup { "total_records" }

state_count(record_states, state) == record_states[state]

\* Variant of calculate_task_state without the test for a task that has no
\* record.
calculate_task_state_no_empty_test(record_states) ==
    IF state_count(record_states, "created") > 0
       /\ ( state_count(record_states, "serializer validation failed") = 0
            \/ state_count(record_states, "validation failed") = 0
            \/ state_count(record_states, "validated") = 0 )
    THEN "created"
    ELSE IF state_count(record_states, "created") > 0 THEN "validating"
    ELSE IF state_count(record_states, "validation failed") > 0
            \/ state_count(record_states, "serializer validation failed") > 0
    THEN "validated with failures"
    ELSE IF state_count(record_states, "validated")
              = record_states["total_records"]
    THEN "validated"
    ELSE IF state_count(record_states, "validated") > 0
            /\ ( state_count(record_states, "import failed") > 0
                 \/ state_count(record_states, "success") > 0 )
    THEN "importing"
    ELSE IF state_count(record_states, "validated") = 0
            /\ state_count(record_states, "import failed") > 0
    THEN "imported with failures"
    ELSE IF state_count(record_states, "success")
              = record_states["total_records"]
    THEN "success"
    ELSE "damaged"

\* Variant of calculate_task_state that tests for an import in progress
\* before it tests for validation failures.
calculate_task_state_importing_first(record_states) ==
    IF record_states["total_records"] = 0 THEN "created"
    ELSE IF state_count(record_states, "created") > 0
            /\ ( state_count(record_states, "serializer validation failed") = 0
                 \/ state_count(record_states, "validation failed") = 0
                 \/ state_count(record_states, "validated") = 0 )
    THEN "created"
    ELSE IF state_count(record_states, "created") > 0 THEN "validating"
    ELSE IF state_count(record_states, "validated") > 0
            /\ ( state_count(record_states, "import failed") > 0
                 \/ state_count(record_states, "success") > 0 )
    THEN "importing"
    ELSE IF state_count(record_states, "validation failed") > 0
            \/ state_count(record_states, "serializer validation failed") > 0
    THEN "validated with failures"
    ELSE IF state_count(record_states, "validated")
              = record_states["total_records"]
    THEN "validated"
    ELSE IF state_count(record_states, "validated") = 0
            /\ state_count(record_states, "import failed") > 0
    THEN "imported with failures"
    ELSE IF state_count(record_states, "success")
              = record_states["total_records"]
    THEN "success"
    ELSE "damaged"

\* Variant of calculate_task_state without the test for a task whose
\* records are all validated.
calculate_task_state_no_validated_test(record_states) ==
    IF record_states["total_records"] = 0 THEN "created"
    ELSE IF state_count(record_states, "created") > 0
            /\ ( state_count(record_states, "serializer validation failed") = 0
                 \/ state_count(record_states, "validation failed") = 0
                 \/ state_count(record_states, "validated") = 0 )
    THEN "created"
    ELSE IF state_count(record_states, "created") > 0 THEN "validating"
    ELSE IF state_count(record_states, "validation failed") > 0
            \/ state_count(record_states, "serializer validation failed") > 0
    THEN "validated with failures"
    ELSE IF state_count(record_states, "validated") > 0
            /\ ( state_count(record_states, "import failed") > 0
                 \/ state_count(record_states, "success") > 0 )
    THEN "importing"
    ELSE IF state_count(record_states, "validated") = 0
            /\ state_count(record_states, "import failed") > 0
    THEN "imported with failures"
    ELSE IF state_count(record_states, "success")
              = record_states["total_records"]
    THEN "success"
    ELSE "damaged"

\* Variant of calculate_task_state whose test for an import in progress
\* looks at the success count only.
calculate_task_state_importing_success_only(record_states) ==
    IF record_states["total_records"] = 0 THEN "created"
    ELSE IF state_count(record_states, "created") > 0
            /\ ( state_count(record_states, "serializer validation failed") = 0
                 \/ state_count(record_states, "validation failed") = 0
                 \/ state_count(record_states, "validated") = 0 )
    THEN "created"
    ELSE IF state_count(record_states, "created") > 0 THEN "validating"
    ELSE IF state_count(record_states, "validation failed") > 0
            \/ state_count(record_states, "serializer validation failed") > 0
    THEN "validated with failures"
    ELSE IF state_count(record_states, "validated")
              = record_states["total_records"]
    THEN "validated"
    ELSE IF state_count(record_states, "validated") > 0
            /\ state_count(record_states, "success") > 0
    THEN "importing"
    ELSE IF state_count(record_states, "validated") = 0
            /\ state_count(record_states, "import failed") > 0
    THEN "imported with failures"
    ELSE IF state_count(record_states, "success")
              = record_states["total_records"]
    THEN "success"
    ELSE "damaged"

\* Variant of calculate_task_state whose test for import failures requires
\* that no record is in status success.
calculate_task_state_import_failed_no_success(record_states) ==
    IF record_states["total_records"] = 0 THEN "created"
    ELSE IF state_count(record_states, "created") > 0
            /\ ( state_count(record_states, "serializer validation failed") = 0
                 \/ state_count(record_states, "validation failed") = 0
                 \/ state_count(record_states, "validated") = 0 )
    THEN "created"
    ELSE IF state_count(record_states, "created") > 0 THEN "validating"
    ELSE IF state_count(record_states, "validation failed") > 0
            \/ state_count(record_states, "serializer validation failed") > 0
    THEN "validated with failures"
    ELSE IF state_count(record_states, "validated")
              = record_states["total_records"]
    THEN "validated"
    ELSE IF state_count(record_states, "validated") > 0
            /\ ( state_count(record_states, "import failed") > 0
                 \/ state_count(record_states, "success") > 0 )
    THEN "importing"
    ELSE IF state_count(record_states, "validated") = 0
            /\ state_count(record_states, "import failed") > 0
            /\ state_count(record_states, "success") = 0
    THEN "imported with failures"
    ELSE IF state_count(record_states, "success")
              = record_states["total_records"]
    THEN "success"
    ELSE "damaged"

\* Variant of calculate_task_state that tests for import failures before it
\* tests for an import in progress, whatever the validated count.
calculate_task_state_import_failed_first(record_states) ==
    IF record_states["total_records"] = 0 THEN "created"
    ELSE IF state_count(record_states, "created") > 0
            /\ ( state_count(record_states, "serializer validation failed") = 0
                 \/ state_count(record_states, "validation failed") = 0
                 \/ state_count(record_states, "validated") = 0 )
    THEN "created"
    ELSE IF state_count(record_states, "created") > 0 THEN "validating"
    ELSE IF state_count(record_states, "validation failed") > 0
            \/ state_count(record_states, "serializer validation failed") > 0
    THEN "validated with failures"
    ELSE IF state_count(record_states, "validated")
              = record_states["total_records"]
    THEN "validated"
    ELSE IF state_count(record_states, "import failed") > 0
    THEN "imported with failures"
    ELSE IF state_count(record_states, "validated") > 0
            /\ ( state_count(record_states, "import failed") > 0
                 \/ state_count(record_states, "success") > 0 )
    THEN "importing"
    ELSE IF state_count(record_states, "success")
              = record_states["total_records"]
    THEN "success"
    ELSE "damaged"

\* Variant of calculate_task_state that returns success as soon as one
\* record is in status success.
calculate_task_state_any_success(record_states) ==
    IF record_states["total_records"] = 0 THEN "created"
    ELSE IF state_count(record_states, "created") > 0
            /\ ( state_count(record_states, "serializer validation failed") = 0
                 \/ state_count(record_states, "validation failed") = 0
                 \/ state_count(record_states, "validated") = 0 )
    THEN "created"
    ELSE IF state_count(record_states, "created") > 0 THEN "validating"
    ELSE IF state_count(record_states, "validation failed") > 0
            \/ state_count(record_states, "serializer validation failed") > 0
    THEN "validated with failures"
    ELSE IF state_count(record_states, "validated")
              = record_states["total_records"]
    THEN "validated"
    ELSE IF state_count(record_states, "validated") > 0
            /\ ( state_count(record_states, "import failed") > 0
                 \/ state_count(record_states, "success") > 0 )
    THEN "importing"
    ELSE IF state_count(record_states, "validated") = 0
            /\ state_count(record_states, "import failed") > 0
    THEN "imported with failures"
    ELSE IF state_count(record_states, "success") > 0
    THEN "success"
    ELSE "damaged"

\* Variant of calculate_task_state without the imported with failures test.
calculate_task_state_no_import_failed_test(record_states) ==
    IF record_states["total_records"] = 0 THEN "created"
    ELSE IF state_count(record_states, "created") > 0
            /\ ( state_count(record_states, "serializer validation failed") = 0
                 \/ state_count(record_states, "validation failed") = 0
                 \/ state_count(record_states, "validated") = 0 )
    THEN "created"
    ELSE IF state_count(record_states, "created") > 0
    THEN "validating"
    ELSE IF state_count(record_states, "validation failed") > 0
            \/ state_count(record_states, "serializer validation failed") > 0
    THEN "validated with failures"
    ELSE IF state_count(record_states, "validated")
                = record_states["total_records"]
    THEN "validated"
    ELSE IF state_count(record_states, "validated") > 0
            /\ ( state_count(record_states, "import failed") > 0
                 \/ state_count(record_states, "success") > 0 )
    THEN "importing"
    ELSE IF state_count(record_states, "success")
                = record_states["total_records"]
    THEN "success"
    ELSE "damaged"

calculate_task_state(record_states) ==
    LET total_records == record_states["total_records"]
        created_count == state_count(record_states, "created")
        serializer_validation_failed_count ==
            state_count(record_states, "serializer validation failed")
        validation_failed_count == state_count(record_states, "validation failed")
        validated_count == state_count(record_states, "validated")
        import_failed_count == state_count(record_states, "import failed")
        success_count == state_count(record_states, "success")
    IN  IF total_records = 0 THEN "created"
        ELSE IF created_count > 0
                /\ ( serializer_validation_failed_count = 0
                     \/ validation_failed_count = 0
                     \/ validated_count = 0 )
             THEN "created"
        ELSE IF created_count > 0
                /\ ( serializer_validation_failed_count > 0
                     \/ validation_failed_count > 0
                     \/ validated_count > 0 )
             THEN "validating"
        ELSE IF validation_failed_count > 0
                \/ serializer_validation_failed_count > 0
             THEN "validated with failures"
        ELSE IF validated_count = total_records /\ created_count = 0
             THEN "validated"
        ELSE IF validated_count > 0
                /\ (import_failed_count > 0 \/ success_count > 0)
             THEN "importing"
        ELSE IF validated_count = 0 /\ import_failed_count > 0
             THEN "imported with failures"
        ELSE IF success_count = total_records THEN "success"
        ELSE "damaged"

\* services/schemas.py: _validate_status raises ValidationError for a value
\* outside the enum; the service update then raises and nothing is written.
\* Variant of validate_record_status that accepts every value.
validate_record_status_any(value) == TRUE

validate_record_status(value) == value \in ImporterRecordState

validate_task_status(value) == value \in ImporterTaskState

\* ------------------------------------------------------------------------
\* Inputs: the rows of the source file, the community registry, the bucket
\* ------------------------------------------------------------------------
\* Community slugs the registry resolves (the uuid is modelled by the slug).
Communities == { "c1" }

\* File reference of a row: scheme is what the prefix sniff sees ("http",
\* "https", "s3", "gs", anything else is a local name); name is the part
\* after the last "/" (the whole reference for a local name); check is the
\* outcome of the
\* reachability check: "ok", "status_error" (a response was received and it
\* says no) or "exception" (the check raised).
FileRef(scheme, name, check) ==
    [scheme |-> scheme, name |-> name, check |-> check]

\* A row after CSV load: ser_errors are the errors serializer.transform
\* returns (none: the row transforms), id the declared target record
\* (0: none), schemaOk the outcome of the RDM schema load.
Row(ser_errors, id, files, comms, schemaOk) ==
    [ser_errors |-> ser_errors, id |-> id, files |-> files, comms |-> comms,
     schemaOk |-> schemaOk]

RowPlain == Row(<<>>, 0, <<>>, <<>>, TRUE)

RowFilesCommunity ==
    Row(<<>>, 0, << FileRef("local", "a.txt", "ok"),
                    FileRef("local", "b.txt", "ok") >>, << "c1" >>, TRUE)

RowNewVersion == Row(<<>>, 1, << FileRef("local", "a.txt", "ok") >>, <<>>, TRUE)

RowNewRevision == Row(<<>>, 1, <<>>, <<>>, TRUE)

RowSerializerErrors == Row(<< "missing" >>, 0, <<>>, <<>>, TRUE)

RowInvalid ==
    Row(<<>>, 0, << FileRef("local", "zz.txt", "exception") >>, << "cx" >>, FALSE)

\* A row that passes the schema load and names a file that is not there.
RowBadFile ==
    Row(<<>>, 0, << FileRef("local", "zz.txt", "exception") >>, <<>>, TRUE)

\* A row that declares a target record the repository does not hold (no
\* run creates more than MaxRepo entries).
RowUnknownTarget == Row(<<>>, MaxRepo + 1, <<>>, <<>>, TRUE)

RowKinds ==
    { RowPlain, RowFilesCommunity, RowNewVersion, RowNewRevision,
      RowSerializerErrors, RowInvalid, RowBadFile, RowUnknownTarget }

\* The source files explored: every one-row file and, of the files of
\* MaxRows rows, those that pair a row that validates with a row of
\* another kind.
MixedFiles ==
    { << RowFilesCommunity, RowNewVersion >>,
      << RowPlain, RowSerializerErrors >>,
      << RowNewRevision, RowInvalid >> }

SourceFiles ==
    { f \in UNION { [1..n -> RowKinds] : n \in 1..MaxRows } :
        Len(f) = 1 \/ f \in MixedFiles }

\* ------------------------------------------------------------------------
\* State
\* ------------------------------------------------------------------------
VARIABLES
    task,        \* the ImporterTask document
    rows,        \* the rows of the attached metadata file
    records,     \* the ImporterRecord documents of the task, by creation order
    repo,        \* the RDM repository: drafts and records, by id
    pendingValidate,  \* dispatched validate_serialized_data units, per record
    pendingRun,       \* dispatched run_transformed_record units, per record
    pendingFinalize,  \* dispatched finalize_importer_task units
    failures,    \* number of service calls the environment made fail
    calls,       \* number of external entry-point calls made, per entry point
    lastRun,     \* what the latest completed run unit did
    lastRecompute,  \* what the latest recompute_task_status saw and wrote
    verified,    \* a record type object, the lists it verifies and the result
    grouped,     \* a CSV row, the group prefix and the items built from it
    task_files   \* the files of the task and the latest file operations

vars == << task, rows, records, repo, pendingValidate, pendingRun,
           pendingFinalize, failures, calls, lastRun, lastRecompute,
           verified, grouped, task_files >>

\* Every begin_validation creates at most MaxRows importer records.
MaxValidationCalls ==
    IF MaxBeginValidations > MaxRepeatedValidations
    THEN MaxBeginValidations ELSE MaxRepeatedValidations

MaxRecords == MaxRows * MaxValidationCalls

RecIds == 1..MaxRecords

\* ------------------------------------------------------------------------
\* Documents
\* ------------------------------------------------------------------------
NoCommunityUuids == [present |-> FALSE, default |-> "", ids |-> <<>>]

\* tasks.py DEFAULT_IMPORER_RECORD_DICT plus the keys the schema allows;
\* an absent key and a None value read the same through dict.get.
DEFAULT_IMPORER_RECORD_DICT ==
    [ status |-> "created",
      errors |-> <<>>,
      src_data |-> RowPlain,
      serializer_data |-> "none",
      transformed_data |-> "none",
      community_uuids |-> NoCommunityUuids,
      record_files |-> <<>>,
      validated_record_files |-> <<>>,
      existing_record_id |-> 0,
      generated_record_id |-> 0 ]

\* Variant of clear_none that stores the document as given.
keep_none(d) == d

\* DataComponent.update ends with record.clear_none(): None values, empty
\* lists and empty dicts are dropped from the stored document, recursively;
\* community_uuids = {default: None, ids: []} therefore is not stored.
clear_none(d) ==
    [d EXCEPT !.community_uuids =
        IF @.present /\ @.default = "" /\ @.ids = <<>>
        THEN NoCommunityUuids ELSE @]

ZeroCounts == [k \in StatusKeys |-> 0]

\* records/api.py ImporterTask.get_importer_record_info: GROUP BY status
\* over every record row of the task, plus total_records.
get_importer_record_info(recs) ==
    [k \in StatusKeys |->
        IF k = "total_records" THEN Len(recs)
        ELSE Cardinality({i \in 1..Len(recs) : recs[i].status = k})]

\* records/api.py ImporterTask.get_records: the ids of the task's records
\* that are not deleted; the body reads no status filter.
get_records(recs) == { i \in 1..Len(recs) : TRUE }

\* ------------------------------------------------------------------------
\* The RDM repository (external collaborator, reached through
\* current_rdm_records_service in record_types/rdm.py and base.py)
\* ------------------------------------------------------------------------
\* One entry per record id: state "draft" or "published"; edit_draft: an
\* edit draft of a published record is open; source: the importer record
\* whose run created the entry (0: it existed before); data: the importer
\* record whose transformed_data was applied last (0: none).
RepoEntry(state, version, source) ==
    [ state |-> state, deleted |-> FALSE, version |-> version, revision |-> 1,
      files |-> <<>>, pending_files |-> <<>>, review |-> "none",
      community |-> "", edit_draft |-> FALSE, source |-> source, data |-> 0 ]

InitialRepo == << RepoEntry("published", 1, 0) >>

\* read / read_draft of base.py _verify_record_exists succeed for an id the
\* repository holds.
RepoHas(rp, id) == id \in 1..Len(rp)

\* ------------------------------------------------------------------------
\* record_types/base.py, record_types/rdm.py: validation
\* ------------------------------------------------------------------------
\* The record type object during validate: errors, is_successful and the
\* collected side-channel results.
NewRecordType(ser_errors) ==
    [ errors |-> ser_errors, is_successful |-> TRUE,
      validated_files |-> <<>>,
      community_uuids |-> [present |-> TRUE, default |-> "", ids |-> <<>>],
      record |-> "none" ]

\* Variant of _add_error that records the error and leaves is_successful.
_add_error_still_successful(rt, type) == [rt EXCEPT !.errors = Append(@, type)]

\* RecordType._add_error
_add_error(rt, type) ==
    [rt EXCEPT !.errors = Append(@, type), !.is_successful = FALSE]

\* FileMixin._get_file_name: key and origin of a file reference.
_get_file_name(file) ==
    [ key |-> file.name,
      origin |-> IF file.scheme \in {"http", "https"} THEN "url"
                 ELSE IF file.scheme = "s3" THEN "s3"
                 ELSE IF file.scheme = "gs" THEN "gs"
                 ELSE "local" ]

\* FileMixin._add_validated_file
_add_validated_file(rt, file) ==
    [rt EXCEPT !.validated_files = Append(@, _get_file_name(file))]

\* FileMixin._check_url_file_accessibility: a response with status >= 400
\* records the error and still adds the file; an exception only records it.
_check_url_file_accessibility(rt, file) ==
    IF file.check = "ok" THEN _add_validated_file(rt, file)
    ELSE IF file.check = "status_error"
         THEN _add_validated_file(_add_error(rt, "file_not_accessible"), file)
    ELSE _add_error(rt, "file_not_accessible")

\* FileMixin._check_s3_file_accessibility, _check_gs_file_accessibility
_check_cloud_file_accessibility(rt, file) ==
    IF file.check = "ok" THEN _add_validated_file(rt, file)
    ELSE _add_error(rt, "file_not_accessible")

\* Variant of _check_invenio_file_accessibility that reports a missing
\* bucket file with the error type of the remote checks.
_check_invenio_file_not_accessible(rt, file) ==
    IF file.check = "ok" THEN _add_validated_file(rt, file)
    ELSE _add_error(rt, "file_not_accessible")

\* FileMixin._check_invenio_file_accessibility
_check_invenio_file_accessibility(rt, file) ==
    IF file.check = "ok" THEN _add_validated_file(rt, file)
    ELSE _add_error(rt, "file_not_found")

RECURSIVE _verify_files_accessible(_, _, _)
\* FileMixin._verify_files_accessible, from file number i on.
_verify_files_accessible(rt, files, i) ==
    IF i > Len(files) THEN rt
    ELSE LET file == files[i]
             next == IF file.scheme \in {"http", "https"}
                       THEN _check_url_file_accessibility(rt, file)
                     ELSE IF file.scheme \in {"s3", "gs"}
                       THEN _check_cloud_file_accessibility(rt, file)
                     ELSE _check_invenio_file_accessibility(rt, file)
         IN  _verify_files_accessible(next, files, i + 1)

RECURSIVE CommunityLoop(_, _, _)
\* The for loop of CommunityMixin._verify_communities_exist, from index idx
\* (1-based here, enumerate's 0 is index 1).
CommunityLoop(rt, communities, idx) ==
    IF idx > Len(communities) THEN rt
    ELSE LET slug == communities[idx]
             next ==
               IF slug \in Communities
               THEN [rt EXCEPT
                       !.community_uuids.default = IF idx = 1 THEN slug ELSE @,
                       !.community_uuids.ids = Append(@, slug)]
               ELSE _add_error(rt, "community_not_found")
         IN  CommunityLoop(next, communities, idx + 1)

\* Variant of _verify_communities_exist that does not read the deployment
\* flag.
_verify_communities_exist_not_required(rt, communities, is_community_required) ==
    CommunityLoop(rt, communities, 1)

\* CommunityMixin._verify_communities_exist
_verify_communities_exist(rt, communities, is_community_required) ==
    IF communities = <<>> /\ is_community_required
    THEN _add_error(rt, "community_not_provided")
    ELSE CommunityLoop(rt, communities, 1)

\* Variant of _verify_record_exists that takes every identifier as found.
_verify_record_exists_unchecked(rt, record_id, rp) == rt

\* InvenioRecordMixin._verify_record_exists
_verify_record_exists(rt, record_id, rp) ==
    IF record_id = 0 THEN rt
    ELSE IF RepoHas(rp, record_id) THEN rt
    ELSE _add_error(rt, "existing_record_not_found")

\* RDMRecord._verify_rdm_record_correctness
_verify_rdm_record_correctness(rt, row) ==
    IF row.schemaOk THEN [rt EXCEPT !.record = "set"]
    ELSE _add_error(rt, "validation_error")

\* config RDM_COMMUNITY_REQUIRED_TO_PUBLISH, read with default False.
RDM_COMMUNITY_REQUIRED_TO_PUBLISH == FALSE

\* Variant of validate in which each check of import mode runs only when
\* the checks before it recorded no error.
validate_until_first_error(row, mode, rp) ==
    LET rt1 == _verify_record_exists(NewRecordType(<<>>), row.id, rp)
        rt2 == _verify_files_accessible(rt1, row.files, 1)
        rt3 == IF rt2.is_successful
               THEN _verify_communities_exist(
                        rt2, row.comms, RDM_COMMUNITY_REQUIRED_TO_PUBLISH)
               ELSE rt2
    IN  IF mode = "import"
        THEN IF rt3.is_successful
             THEN _verify_rdm_record_correctness(rt3, row) ELSE rt3
        ELSE IF mode = "delete" THEN [rt1 EXCEPT !.record = "set"]
        ELSE rt1

\* RDMRecord.validate: the record type object after validate(mode); its
\* is_successful is the value validate returns.  The serializer data of a
\* row that transformed is never empty.  _verify_pre_commit_correctness
\* works on a trial draft inside a unit of work that is always rolled back
\* and only adds errors for relations the rows here do not carry.
validate(row, mode, rp) ==
    LET rt0 == NewRecordType(<<>>)
        rt1 == _verify_record_exists(rt0, row.id, rp)
    IN  IF mode = "import"
        THEN LET rt2 == _verify_files_accessible(rt1, row.files, 1)
                 rt3 == _verify_communities_exist(
                            rt2, row.comms, RDM_COMMUNITY_REQUIRED_TO_PUBLISH)
             IN  _verify_rdm_record_correctness(rt3, row)
        ELSE IF mode = "delete" THEN [rt1 EXCEPT !.record = "set"]
        ELSE rt1

\* The session of _verify_pre_commit_correctness once its body ran: the
\* trial RDMDraft built from the record data is in it.
TrialDraft(rp) == Append(rp, RepoEntry("draft", 1, 0))

\* Variant of rollabck_unit_of_work that commits the session, as
\* unit_of_work does.
rollabck_unit_of_work_committed(rp, session) == session

\* record_types/uow.py: uow.rollback() follows the call, and the exit of
\* the with block rolls back when the call raised; the repository is the
\* one before the call.
rollabck_unit_of_work(rp, session) == rp

\* The repository after validate_serialized_data for document d: validate
\* runs for a row that transformed, and in import mode it reaches
\* _verify_pre_commit_correctness whatever the earlier checks recorded.
ValidateRepo(d, mode, rp) ==
    IF d.src_data.ser_errors = <<>> /\ mode = "import"
    THEN rollabck_unit_of_work(rp, TrialDraft(rp))
    ELSE rp

\* services/tasks.py validate_serialized_data, the branch of a row that
\* transformed: rt is the record type object after validate.
ValidatedOutcome(cleared, row, rt) ==
    [cleared EXCEPT
       !.serializer_data = "set",
       !.status = IF rt.is_successful THEN "validated" ELSE "validation failed",
       !.transformed_data = rt.record,
       !.errors = rt.errors,
       !.community_uuids = rt.community_uuids,
       !.record_files = row.files,
       !.validated_record_files = rt.validated_files,
       !.existing_record_id = row.id]

\* services/tasks.py validate_serialized_data: the dictionary handed to
\* records_service.update for record document d.
ValidatedDict(d, mode, rp) ==
    IF d.src_data.ser_errors # <<>>
    THEN [d EXCEPT !.serializer_data = "none", !.transformed_data = "none",
                   !.status = "serializer validation failed",
                   !.errors = d.src_data.ser_errors]
    ELSE ValidatedOutcome(
             [d EXCEPT !.serializer_data = "none", !.transformed_data = "none"],
             d.src_data, validate(d.src_data, mode, rp))

\* records_service.update: the schema load rejects a status outside the
\* enum (nothing is written); otherwise the document is replaced and
\* cleared of None values.
ServiceUpdateOk(data) == validate_record_status(data.status)

\* Variant of ServiceUpdate that writes the outcome to every record of the
\* task instead of the one record id names.
ServiceUpdateAllOfTask(recs, id, data) ==
    IF ServiceUpdateOk(data)
    THEN [i \in 1..Len(recs) |->
            IF i = id THEN clear_none(data)
            ELSE [recs[i] EXCEPT !.status = data.status,
                                 !.errors = data.errors,
                                 !.generated_record_id = data.generated_record_id]]
    ELSE recs

ServiceUpdate(recs, id, data) ==
    IF ServiceUpdateOk(data) THEN [recs EXCEPT ![id] = clear_none(data)]
    ELSE recs

\* ------------------------------------------------------------------------
\* record_types/rdm.py: the upsert / publish orchestrator
\* ------------------------------------------------------------------------
\* A call to the record service, the draft files service or the requests
\* service: op on repository id, with argument arg (a file key, a community).
ServiceCall(op, id, arg) == [op |-> op, id |-> id, arg |-> arg, keys |-> <<>>]

InitFilesCall(id, keys) ==
    [op |-> "init_files", id |-> id, arg |-> "", keys |-> keys]

NoCall == ServiceCall("none", 0, "")

\* The calls that need an existing, published, not deleted target.
NeedsPublishedTarget == { "new_version", "edit", "delete_record" }

\* Whether the service can carry out the call on repository rp.
CanSucceed(rp, c) ==
    IF c.op \in NeedsPublishedTarget
    THEN /\ RepoHas(rp, c.id)
         /\ rp[c.id].state = "published"
         /\ ~rp[c.id].deleted
    ELSE TRUE

\* The effect of a successful call on the repository; irec is the importer
\* record the run works for.
ApplyCall(rp, c, irec) ==
    CASE c.op = "create" ->
           Append(rp, RepoEntry("draft", 1, irec))
      [] c.op = "new_version" ->
           Append(rp, RepoEntry("draft", rp[c.id].version + 1, irec))
      [] c.op = "edit" -> [rp EXCEPT ![c.id].edit_draft = TRUE]
      [] c.op = "update_draft" -> [rp EXCEPT ![c.id].data = irec]
      [] c.op = "init_files" -> [rp EXCEPT ![c.id].pending_files = c.keys]
      [] c.op = "set_file_content" -> rp
      [] c.op = "commit_file" -> [rp EXCEPT ![c.id].files = Append(@, c.arg)]
      [] c.op = "review.update" ->
           [rp EXCEPT ![c.id].review = "created", ![c.id].community = c.arg]
      [] c.op = "submit" -> [rp EXCEPT ![c.id].review = "submitted"]
      [] c.op = "accept" ->
           [rp EXCEPT ![c.id].review = "accepted", ![c.id].state = "published"]
      [] c.op = "publish" ->
           IF rp[c.id].edit_draft
           THEN [rp EXCEPT ![c.id].edit_draft = FALSE,
                           ![c.id].revision = @ + 1]
           ELSE [rp EXCEPT ![c.id].state = "published"]
      [] c.op = "delete_record" -> [rp EXCEPT ![c.id].deleted = TRUE]
      [] OTHER -> rp

\* The state of one run: the repository as the calls so far left it, the
\* errors of the record type object, the log of the calls that succeeded,
\* whether an exception is propagating and which call raised it.  fail_at
\* is the number of the call the environment makes fail (0: none).
NewRun(rp, irec, fail_at) ==
    [ repo |-> rp, irec |-> irec, errors |-> <<>>, log |-> <<>>,
      attempts |-> 0, raised |-> FALSE, failed |-> NoCall,
      fail_at |-> fail_at, item |-> 0 ]

\* One service call: it raises when the environment fails it or when the
\* repository cannot carry it out; nothing runs while an exception
\* propagates.
Call(st, c) ==
    IF st.raised THEN st
    ELSE IF st.attempts + 1 = st.fail_at \/ ~CanSucceed(st.repo, c)
         THEN [st EXCEPT !.raised = TRUE, !.failed = c,
                         !.attempts = @ + 1]
    ELSE [st EXCEPT !.repo = ApplyCall(@, c, st.irec),
                    !.log = Append(@, c), !.attempts = @ + 1]

\* RecordType._add_error on the run state.
RunAddError(st, type) == [st EXCEPT !.errors = Append(@, type)]

\* Python truthiness of the stored values the orchestrator branches on.
Truthy(community_uuids) == community_uuids.present

\* except Exception: self._add_error(type); raise -- on the run state.
ExceptAddError(st, type) == IF st.raised THEN RunAddError(st, type) ELSE st

\* The id a step returns to run when no exception propagates.
ReturnItem(st, rid) == IF st.raised THEN st ELSE [st EXCEPT !.item = rid]

RECURSIVE FileLoop(_, _, _, _)
\* Variant of FileLoopNext whose except clause does not re-raise: the error
\* is recorded and the loop goes on.
FileLoopNextNoRaise(st, files, rid, i) ==
    IF st.raised
    THEN FileLoop([RunAddError(st, "file_add_error") EXCEPT !.raised = FALSE],
                  files, rid, i + 1)
    ELSE FileLoop(st, files, rid, i + 1)

\* One file of the loop is done: the inner except records the file's error
\* and re-raises, otherwise the loop goes on with the next file.
FileLoopNext(st, files, rid, i) ==
    IF st.raised THEN RunAddError(st, "file_add_error")
    ELSE FileLoop(st, files, rid, i + 1)

\* The for loop of _add_files_to_record, from file number i on.
FileLoop(st, files, rid, i) ==
    IF st.raised \/ i > Len(files) THEN st
    ELSE FileLoopNext(
             Call(Call(st, ServiceCall("set_file_content", rid, files[i].key)),
                  ServiceCall("commit_file", rid, files[i].key)),
             files, rid, i)

FileKeys(files) == [i \in 1..Len(files) |-> files[i].key]

\* RDMRecord._add_files_to_record; the outer except records an error for
\* whatever escaped the try block and re-raises.  It is not reached while
\* an exception propagates.
_add_files_to_record(st, files, rid) ==
    IF st.raised \/ files = <<>> THEN st
    ELSE ExceptAddError(
             FileLoop(Call(st, InitFilesCall(rid, FileKeys(files))),
                      files, rid, 1),
             "file_add_error")

RECURSIVE _add_record_to_communities(_, _, _, _, _)
\* One community of the loop is done.
CommunityNext(st, ids, rid, publish, i) ==
    IF st.raised THEN RunAddError(st, "record_add_error")
    ELSE _add_record_to_communities(st, ids, rid, publish, i + 1)

\* The submit and accept calls, made when options.publish is set.
SubmitAndAccept(st, rid, community, publish) ==
    IF publish
    THEN Call(Call(st, ServiceCall("submit", rid, community)),
              ServiceCall("accept", rid, community))
    ELSE st

\* RDMRecord._add_record_to_communities, from community number i on.
_add_record_to_communities(st, ids, rid, publish, i) ==
    IF st.raised \/ i > Len(ids) THEN st
    ELSE CommunityNext(
             SubmitAndAccept(
                 Call(st, ServiceCall("review.update", rid, ids[i])),
                 rid, ids[i], publish),
             ids, rid, publish, i)

\* RDMRecord._publish_record; not reached while an exception propagates.
_publish_record(st, community_uuids, rid, publish) ==
    IF st.raised THEN st
    ELSE IF Truthy(community_uuids)
    THEN _add_record_to_communities(st, community_uuids.ids, rid, publish, 1)
    ELSE IF publish THEN Call(st, ServiceCall("publish", rid, ""))
    ELSE st

\* The part of _create_record after the try block around create: the files,
\* the publish step, the returned id.
CreateRecordRest(st, d, publish, rid) ==
    IF st.raised THEN RunAddError(st, "record_creation_error")
    ELSE ReturnItem(
             _publish_record(
                 _add_files_to_record(st, d.validated_record_files, rid),
                 d.community_uuids, rid, publish),
             rid)

\* RDMRecord._create_record (DATACITE_ENABLED is off: _doi_minting returns
\* at once).
_create_record(st, d, publish) ==
    CreateRecordRest(Call(st, ServiceCall("create", Len(st.repo) + 1, "")),
                     d, publish, Len(st.repo) + 1)

\* The try block of _update_new_version for the new draft rid.
NewVersionSteps(st, existing_record_id, d, rid) ==
    Call(_add_files_to_record(
             Call(Call(st, ServiceCall("new_version", existing_record_id, "")),
                  ServiceCall("update_draft", rid, "")),
             d.validated_record_files, rid),
         ServiceCall("publish", rid, ""))

\* RDMRecord._update_new_version
_update_new_version(st, existing_record_id, d) ==
    ReturnItem(
        ExceptAddError(
            NewVersionSteps(st, existing_record_id, d, Len(st.repo) + 1),
            "record_update_error"),
        Len(st.repo) + 1)

\* RDMRecord._update_new_revision
_update_new_revision(st, existing_record_id, d) ==
    ReturnItem(
        ExceptAddError(
            Call(Call(Call(st, ServiceCall("edit", existing_record_id, "")),
                      ServiceCall("update_draft", existing_record_id, "")),
                 ServiceCall("publish", existing_record_id, "")),
            "record_update_error"),
        existing_record_id)

\* Variant of _update_record with the two branches exchanged.
_update_record_exchanged(st, existing_record_id, d) ==
    IF d.validated_record_files # <<>>
    THEN _update_new_revision(st, existing_record_id, d)
    ELSE _update_new_version(st, existing_record_id, d)

\* RDMRecord._update_record
_update_record(st, existing_record_id, d) ==
    IF d.validated_record_files # <<>>
    THEN _update_new_version(st, existing_record_id, d)
    ELSE _update_new_revision(st, existing_record_id, d)

\* RDMRecord._upsert_record
_upsert_record(st, d, publish) ==
    IF d.existing_record_id # 0
    THEN _update_record(st, d.existing_record_id, d)
    ELSE _create_record(st, d, publish)

\* RDMRecord._delete_record
_delete_record(st, d) ==
    ReturnItem(
        ExceptAddError(
            Call(st, ServiceCall("delete_record", d.existing_record_id, "")),
            "record_deletion_error"),
        d.existing_record_id)

\* Variant of RunExcept without the test on self.errors.
RunExceptAlways(st) ==
    IF st.raised THEN RunAddError(st, "unexpected_error") ELSE st

\* The except clause of run: an exception never leaves run; it is caught,
\* and an unexpected_error is recorded when no error was.
RunExcept(st) ==
    IF st.raised /\ st.errors = <<>> THEN RunAddError(st, "unexpected_error")
    ELSE st

\* RDMRecord.run on importer record document d (number irec): the run state
\* when run returns.
run(d, irec, mode, publish, rp, fail_at) ==
    IF d.status # "validated" THEN NewRun(rp, irec, fail_at)
    ELSE IF mode = "import"
    THEN RunExcept(_upsert_record(NewRun(rp, irec, fail_at), d, publish))
    ELSE RunExcept(_delete_record(NewRun(rp, irec, fail_at), d))

\* The @unit_of_work() around run: run returns normally whether or not a
\* step failed, so the unit of work commits what the calls did.
UnitOfWorkResult(rp_before, st) == st.repo

\* services/tasks.py run_transformed_record: the dictionary handed to
\* records_service.update after run returned st.
RunDict(d, st) ==
    [d EXCEPT !.status = IF st.errors = <<>> THEN "success"
                         ELSE "creation failed",
              !.errors = st.errors,
              !.generated_record_id = st.item]

\* ------------------------------------------------------------------------
\* Initial state: a task created through the service with its metadata
\* file attached, no importer record yet, one published repository record.
\* ------------------------------------------------------------------------
\* rec: the importer record of the latest run unit (0: none ran); doc: the
\* document the unit read; run: the state run returned; repo_before,
\* repo_after: the repository around the unit; after: the importer record
\* as the unit left it.
NoRun ==
    [ rec |-> 0, doc |-> DEFAULT_IMPORER_RECORD_DICT, mode |-> "import",
      publish |-> TRUE, run |-> NewRun(InitialRepo, 0, 0),
      repo_before |-> InitialRepo, repo_after |-> InitialRepo,
      after |-> DEFAULT_IMPORER_RECORD_DICT ]

\* unchanged: a recompute ran and no importer record was written since;
\* records_status, status: what it wrote (kept while unchanged);
\* same_input: the latest recompute ran on the records the one before it
\* ran on; same_output: it then wrote what the one before it wrote.
NoRecompute ==
    [ unchanged |-> FALSE, records_status |-> ZeroCounts, status |-> "created",
      same_input |-> FALSE, same_output |-> FALSE ]

RecordsWritten(lr) ==
    [lr EXCEPT !.unchanged = FALSE, !.records_status = ZeroCounts,
               !.status = "created"]

\* No verification was asked for outside validate: files, communities and
\* is_community_required are the arguments, step the method applied
\* ("none": not yet), rt the record type object it left.
NoVerify ==
    [ files |-> <<>>, communities |-> <<>>, is_community_required |-> FALSE,
      step |-> "none", rt |-> NewRecordType(<<>>) ]

\* What serializer.transform returns: data (has_data: it is not None; the
\* creators are the part of it kept here) and errors.
NoTransform == [ has_data |-> FALSE, creators |-> <<>>, errors |-> <<>> ]

\* No group was processed: original is the row, prefix the group prefix,
\* done whether process_grouped_fields returned, output what it returned,
\* transform what serializer.transform returned for the row.
NoGrouped ==
    [ original |-> <<>>, prefix |-> "", done |-> FALSE, output |-> <<>>,
      transform |-> NoTransform ]

\* A task just created holds no file: files are the entries of record.files
\* in order, each a key and the stream stored under it; last is the latest
\* update_metadata_file or delete_metadata_file call and whether it raised;
\* read is what read_metadata_file returned since.
NoRead == [ done |-> FALSE, raised |-> FALSE, stream |-> "" ]

\* The X-Filename header is absent: request_filename is None.
NoFilename == [ is_none |-> TRUE, chars |-> <<>> ]

NoFiles ==
    [ files |-> <<>>,
      last |-> [ op |-> "none", filename |-> NoFilename, raised |-> FALSE ],
      read |-> NoRead ]

Init ==
    /\ \E mode \in {"import", "delete"}, publish \in BOOLEAN :
         task = [ mode |-> mode, options |-> [publish |-> publish],
                  status |-> "created", has_records_status |-> FALSE,
                  records_status |-> ZeroCounts ]
    /\ rows \in SourceFiles
    /\ records = <<>>
    /\ repo = InitialRepo
    /\ pendingValidate = [r \in RecIds |-> 0]
    /\ pendingRun = [r \in RecIds |-> 0]
    /\ pendingFinalize = 0
    /\ failures = 0
    /\ calls = [begin_validation |-> 0, begin_import |-> 0,
                status_update |-> 0, start_run |-> 0]
    /\ lastRun = NoRun
    /\ lastRecompute = NoRecompute
    /\ verified = NoVerify
    /\ grouped = NoGrouped
    /\ task_files = NoFiles

\* ------------------------------------------------------------------------
\* Entry points and Celery units
\* ------------------------------------------------------------------------
\* begin_validation: ImporterTaskService.start_validation dispatches
\* valid_importer_file_data, which creates one importer record per row of
\* the metadata file, dispatches a validate unit for each and then one
\* finalize unit.
BeginValidationUpTo(max_calls) ==
    /\ calls.begin_validation < max_calls
    /\ Len(records) + Len(rows) <= MaxRecords
    /\ LET created == [i \in 1..Len(rows) |->
                         [DEFAULT_IMPORER_RECORD_DICT EXCEPT
                            !.src_data = rows[i]]]
           ids == (Len(records) + 1)..(Len(records) + Len(rows))
       IN  /\ records' = records \o created
           /\ pendingValidate' =
                [r \in RecIds |-> pendingValidate[r] + IF r \in ids THEN 1 ELSE 0]
    /\ pendingFinalize' = pendingFinalize + 1
    /\ calls' = [calls EXCEPT !.begin_validation = @ + 1]
    /\ lastRecompute' = RecordsWritten(lastRecompute)
    /\ UNCHANGED << verified, grouped, task_files,
                    task, rows, repo, pendingRun, failures, lastRun >>

BeginValidation == BeginValidationUpTo(MaxBeginValidations)

\* begin_validation called again on the task, its metadata file unchanged.
BeginValidationAgain == BeginValidationUpTo(MaxRepeatedValidations)

\* validate_serialized_data for importer record r.
ValidateUnit(r) ==
    /\ pendingValidate[r] > 0
    /\ pendingValidate' = [pendingValidate EXCEPT ![r] = @ - 1]
    /\ records' = ServiceUpdate(records, r,
                                ValidatedDict(records[r], task.mode, repo))
    /\ repo' = ValidateRepo(records[r], task.mode, repo)
    /\ lastRecompute' = RecordsWritten(lastRecompute)
    /\ UNCHANGED << verified, grouped, task_files,
                    task, rows, pendingRun, pendingFinalize, failures,
                    calls, lastRun >>

\* finalize_importer_task: read-aggregate of the record statuses and a
\* single write to the task.
FinalizeTaskData(t, recs) ==
    [t EXCEPT !.has_records_status = TRUE,
              !.records_status = get_importer_record_info(recs),
              !.status = "validating"]

FinalizeUnit ==
    /\ pendingFinalize > 0
    /\ pendingFinalize' = pendingFinalize - 1
    /\ task' = FinalizeTaskData(task, records)
    /\ UNCHANGED << verified, grouped, task_files,
                    rows, records, repo, pendingValidate, pendingRun, failures,
                    calls, lastRun, lastRecompute >>

\* Variant of StatusUpdateTaskData that keeps records_status as a counter:
\* the counts read are added to the counts stored.
StatusUpdateTaskDataCounter(t, recs) ==
    [t EXCEPT !.has_records_status = TRUE,
              !.records_status =
                  [k \in StatusKeys |->
                      @[k] + get_importer_record_info(recs)[k]],
              !.status = calculate_task_state(
                  [k \in StatusKeys |->
                      t.records_status[k] + get_importer_record_info(recs)[k]])]

\* recompute_task_status: ImporterTaskService.status_update.
StatusUpdateTaskData(t, recs) ==
    LET records_status == get_importer_record_info(recs)
    IN  [t EXCEPT !.has_records_status = TRUE,
                  !.records_status = records_status,
                  !.status = calculate_task_state(records_status)]

StatusUpdate ==
    /\ calls.status_update < MaxStatusUpdates
    /\ task' = StatusUpdateTaskData(task, records)
    /\ calls' = [calls EXCEPT !.status_update = @ + 1]
    /\ lastRecompute' =
         [ unchanged |-> TRUE,
           records_status |-> task'.records_status,
           status |-> task'.status,
           same_input |-> lastRecompute.unchanged,
           same_output |->
               /\ task'.records_status = lastRecompute.records_status
               /\ task'.status = lastRecompute.status ]
    /\ UNCHANGED << verified, grouped, task_files,
                    rows, records, repo, pendingValidate, pendingRun,
                    pendingFinalize, failures, lastRun >>

\* begin_import: ImporterTaskService.start_loading_records dispatches
\* run_transformed_records, which dispatches a run unit for every id
\* get_records returns and then one finalize unit.
BeginImport ==
    /\ calls.begin_import = 0
    /\ calls' = [calls EXCEPT !.begin_import = @ + 1]
    /\ pendingRun' =
         [r \in RecIds |->
            pendingRun[r] + IF r \in get_records(records) THEN 1 ELSE 0]
    /\ pendingFinalize' = pendingFinalize + 1
    /\ UNCHANGED << verified, grouped, task_files,
                    task, rows, records, repo, pendingValidate, failures,
                    lastRun, lastRecompute >>

\* run_one: ImporterRecordService.start_run dispatches one run unit.
StartRun(r) ==
    /\ calls.start_run < MaxStartRuns
    /\ r \in 1..Len(records)
    /\ calls' = [calls EXCEPT !.start_run = @ + 1]
    /\ pendingRun' = [pendingRun EXCEPT ![r] = @ + 1]
    /\ UNCHANGED << verified, grouped, task_files,
                    task, rows, records, repo, pendingValidate,
                    pendingFinalize, failures, lastRun, lastRecompute >>

\* The number of service calls run makes when none fails.
PlannedCalls(d, irec, mode, publish, rp) ==
    run(d, irec, mode, publish, rp, 0).attempts

\* The writes of run_transformed_record once run returned st.
RunWrite(r, doc, st, fail_at) ==
    /\ repo' = UnitOfWorkResult(repo, st)
    /\ records' = ServiceUpdate(records, r, RunDict(doc, st))
    /\ failures' = failures + IF fail_at > 0 THEN 1 ELSE 0
    /\ lastRun' = [ rec |-> r, doc |-> doc, mode |-> task.mode,
                    publish |-> task.options.publish, run |-> st,
                    repo_before |-> repo, repo_after |-> repo',
                    after |-> records'[r] ]

\* The calls of the run the environment may make fail (0: none).
FailChoices(r) ==
    IF failures < MaxFailures
    THEN 0..PlannedCalls(records[r], r, task.mode, task.options.publish, repo)
    ELSE {0}

\* run_transformed_record for importer record r: read the record,
\* RDMRecord.run on it, then records_service.update with the outcome.
RunUnit(r) ==
    /\ pendingRun[r] > 0
    /\ Len(repo) < MaxRepo
    /\ pendingRun' = [pendingRun EXCEPT ![r] = @ - 1]
    /\ \E fail_at \in FailChoices(r) :
         RunWrite(r, records[r],
                  run(records[r], r, task.mode, task.options.publish, repo,
                      fail_at),
                  fail_at)
    /\ lastRecompute' = RecordsWritten(lastRecompute)
    /\ UNCHANGED << verified, grouped, task_files,
                    task, rows, pendingValidate, pendingFinalize, calls >>

Next ==
    \/ BeginValidation
    \/ \E r \in RecIds : ValidateUnit(r)
    \/ FinalizeUnit
    \/ StatusUpdate
    \/ BeginImport
    \/ \E r \in RecIds : StartRun(r)
    \/ \E r \in RecIds : RunUnit(r)

Spec == Init /\ [][Next]_vars

\* The validation phase alone, with begin_validation repeated.
NextRevalidate ==
    \/ BeginValidationAgain
    \/ \E r \in RecIds : ValidateUnit(r)
    \/ FinalizeUnit

SpecRevalidate == Init /\ [][NextRevalidate]_vars

\* ------------------------------------------------------------------------
\* The task state calculator on its own: every distribution of up to
\* MaxCount records per record status, as get_importer_record_info returns
\* it (total_records is the sum of the counts).
\* ------------------------------------------------------------------------
Distribution(counts) ==
    [k \in StatusKeys |->
        IF k = "total_records"
        THEN counts["created"] + counts["validating"]
               + counts["serializer validation failed"]
               + counts["validation failed"] + counts["validated"]
               + counts["import failed"] + counts["success"]
        ELSE counts[k]]

Distributions ==
    { Distribution(counts) : counts \in [ImporterRecordState -> 0..MaxCount] }

InitCalculator ==
    /\ \E record_states \in Distributions :
         task = [ mode |-> "import", options |-> [publish |-> TRUE],
                  status |-> "created", has_records_status |-> TRUE,
                  records_status |-> record_states ]
    /\ rows = << RowPlain >>
    /\ records = <<>>
    /\ repo = InitialRepo
    /\ pendingValidate = [r \in RecIds |-> 0]
    /\ pendingRun = [r \in RecIds |-> 0]
    /\ pendingFinalize = 0
    /\ failures = 0
    /\ calls = [begin_validation |-> 0, begin_import |-> 0,
                status_update |-> 0, start_run |-> 0]
    /\ lastRun = NoRun
    /\ lastRecompute = NoRecompute
    /\ verified = NoVerify
    /\ grouped = NoGrouped
    /\ task_files = NoFiles

\* TaskStateCalculator.calculate_task_state applied to the distribution, as
\* status_update applies it; the result is written to the task.
CalculateTaskState ==
    /\ calls.status_update = 0
    /\ task' = [task EXCEPT
                  !.status = calculate_task_state(task.records_status)]
    /\ calls' = [calls EXCEPT !.status_update = 1]
    /\ UNCHANGED << verified, grouped, task_files,
                    rows, records, repo, pendingValidate, pendingRun,
                    pendingFinalize, failures, lastRun, lastRecompute >>

NextCalculator == CalculateTaskState

SpecCalculator == InitCalculator /\ [][NextCalculator]_vars

\* ------------------------------------------------------------------------
\* The verification methods of the record type on their own, as the unit
\* tests call them: every list of up to MaxFiles file references of every
\* prefix and check outcome, every list of up to MaxCommunities community
\* slugs, the deployment flag either way.
\* ------------------------------------------------------------------------
MaxFiles == 2

MaxCommunities == 2

\* What the prefix sniff can see, with the name the reference ends in.
FilePrefixes ==
    { <<"http", "u.txt">>, <<"https", "v.txt">>, <<"s3", "s.json">>,
      <<"gs", "g.pdf">>, <<"ftp", "ftp://h/f.txt">>, <<"local", "README.rst">> }

FileRefs ==
    { FileRef(p[1], p[2], check) :
        p \in FilePrefixes, check \in {"ok", "status_error", "exception"} }

FileLists == UNION { [1..n -> FileRefs] : n \in 0..MaxFiles }

\* Slugs a row names: "c1" resolves, "cx" raises PIDDoesNotExistError.
CommunityLists == UNION { [1..n -> {"c1", "cx"}] : n \in 0..MaxCommunities }

\* The task state machine at rest while a method is applied on its own.
AtRest ==
    /\ task = [ mode |-> "import", options |-> [publish |-> TRUE],
                status |-> "created", has_records_status |-> FALSE,
                records_status |-> ZeroCounts ]
    /\ rows = << RowPlain >>
    /\ records = <<>>
    /\ repo = InitialRepo
    /\ pendingValidate = [r \in RecIds |-> 0]
    /\ pendingRun = [r \in RecIds |-> 0]
    /\ pendingFinalize = 0
    /\ failures = 0
    /\ calls = [begin_validation |-> 0, begin_import |-> 0,
                status_update |-> 0, start_run |-> 0]
    /\ lastRun = NoRun
    /\ lastRecompute = NoRecompute
    /\ task_files = NoFiles

StaysAtRest ==
    UNCHANGED << task, rows, records, repo, pendingValidate, pendingRun,
                 pendingFinalize, failures, calls, lastRun, lastRecompute,
                 task_files >>

InitVerify ==
    /\ AtRest
    /\ \E files \in FileLists, communities \in CommunityLists,
          is_community_required \in BOOLEAN :
         verified = [ files |-> files, communities |-> communities,
                      is_community_required |-> is_community_required,
                      step |-> "none", rt |-> NewRecordType(<<>>) ]
    /\ grouped = NoGrouped

\* FileMixin._verify_files_accessible(files) on a fresh record type object.
VerifyFilesAccessible ==
    /\ verified.step = "none"
    /\ verified' = [verified EXCEPT
                       !.step = "files",
                       !.rt = _verify_files_accessible(@, verified.files, 1)]
    /\ UNCHANGED grouped
    /\ StaysAtRest

\* CommunityMixin._verify_communities_exist(communities) on a fresh record
\* type object.
VerifyCommunitiesExist ==
    /\ verified.step = "none"
    /\ verified' = [verified EXCEPT
                       !.step = "communities",
                       !.rt = _verify_communities_exist(
                                  @, verified.communities,
                                  verified.is_community_required)]
    /\ UNCHANGED grouped
    /\ StaysAtRest

NextVerify ==
    \/ VerifyFilesAccessible
    \/ VerifyCommunitiesExist

SpecVerify == InitVerify /\ [][NextVerify]_vars

\* ------------------------------------------------------------------------
\* serializers/records/utils.py: process_grouped_fields on its own, on
\* every row whose group columns hold up to MaxLines lines each.
\* ------------------------------------------------------------------------
MaxLines == 2

\* A column title "<prefix>.<rest>"; rest is "" for a title without a dot.
Column(prefix, rest) == [prefix |-> prefix, rest |-> rest]

GroupColumns == { Column("creators", "name"), Column("creators", "type") }

OtherColumns == { Column("title", "") }

\* A cell of the row as csv.DictReader yields it: a string, given by the
\* list str.split("\n") makes of it (the empty string is one empty line),
\* or None, the restval of a row that is shorter than the header.
PyStr(lines) == [is_none |-> FALSE, lines |-> lines]

PyNone == [is_none |-> TRUE, lines |-> <<>>]

\* Lines: empty, blank, or a value.
Lines == { "", " ", "A", "B" }

Cells ==
    { PyNone } \cup
    { PyStr(lines) : lines \in UNION { [1..n -> Lines] : n \in 1..MaxLines } }

\* Rows: the other columns are filled, every group column is absent from
\* the header or holds a cell.
CsvRow(group) ==
    [ key \in DOMAIN group \cup OtherColumns |->
        IF key \in OtherColumns THEN PyStr(<< "A" >>) ELSE group[key] ]

CsvRows ==
    { CsvRow(group) :
        group \in UNION { [present -> Cells] : present \in SUBSET GroupColumns } }

\* str.strip() of a line.
strip(line) == IF line = " " THEN "" ELSE line

\* A value of an item dict: a line, or None.
ItemValue(line) == [is_none |-> FALSE, value |-> line]

ItemNone == [is_none |-> TRUE, value |-> ""]

\* key.startswith(f"{prefix}.")
group_input(original, prefix) ==
    { key \in DOMAIN original : key.prefix = prefix /\ key.rest # "" }

Max(S) == CHOOSE n \in S : \A m \in S : m <= n

\* The try block: max() of the slice counts; value.split raises for a cell
\* that is None and max() raises for an empty group, and both give 0.
num_items(original, keys) ==
    IF keys = {} \/ \E key \in keys : original[key].is_none THEN 0
    ELSE Max({ Len(original[key].lines) : key \in keys })

\* The item dict of slice i (0-based, as range yields it): one entry per
\* key of the group, named by the key without its prefix.
item_dict(original, prefix, keys, i) ==
    [ rest \in { key.rest : key \in keys } |->
        LET values == original[Column(prefix, rest)].lines
        IN  IF i < Len(values) /\ strip(values[i + 1]) # ""
            THEN ItemValue(values[i + 1]) ELSE ItemNone ]

RECURSIVE ItemLoop(_, _, _, _, _, _)
\* for i in range(num_items), from slice i on.
ItemLoop(original, prefix, keys, i, n, output) ==
    IF i >= n THEN output
    ELSE LET item == item_dict(original, prefix, keys, i)
         IN  ItemLoop(original, prefix, keys, i + 1, n,
                      IF \A rest \in DOMAIN item : item[rest].is_none
                      THEN output ELSE Append(output, item))

\* Variant of process_grouped_fields whose loop starts at the second slice.
process_grouped_fields_from_second(original, prefix) ==
    ItemLoop(original, prefix, group_input(original, prefix), 1,
             num_items(original, group_input(original, prefix)), <<>>)

process_grouped_fields(original, prefix) ==
    ItemLoop(original, prefix, group_input(original, prefix), 0,
             num_items(original, group_input(original, prefix)), <<>>)

InitGrouped ==
    /\ AtRest
    /\ verified = NoVerify
    /\ \E original \in CsvRows :
         grouped = [ original |-> original, prefix |-> "creators",
                     done |-> FALSE, output |-> <<>>,
                     transform |-> NoTransform ]

\* process_grouped_fields(original, prefix) returns.
ProcessGroupedFields ==
    /\ ~grouped.done
    /\ grouped' = [grouped EXCEPT
                      !.done = TRUE,
                      !.output = process_grouped_fields(grouped.original,
                                                        grouped.prefix)]
    /\ UNCHANGED verified
    /\ StaysAtRest

NextGrouped == ProcessGroupedFields

SpecGrouped == InitGrouped /\ [][NextGrouped]_vars

\* ------------------------------------------------------------------------
\* serializers/records/csv.py: CSVRDMRecordSerializer.transform, the part
\* that builds and validates the creators of a row whose other columns are
\* valid.
\* ------------------------------------------------------------------------
PersonColumns ==
    { Column("creators", "type"), Column("creators", "name"),
      Column("creators", "family_name") }

TypeLines == { "", "personal", "organizational", "other" }

NameLines == { "", "A" }

PersonCells(rest) ==
    { PyNone } \cup
    { PyStr(lines) :
        lines \in UNION { [1..n -> IF rest = "type" THEN TypeLines
                                   ELSE NameLines] : n \in 1..MaxLines } }

\* Rows: the other columns are filled, every column of the creators is
\* absent from the header or holds a cell.
PersonRow(present, type, name, family_name) ==
    [ key \in present \cup OtherColumns |->
        CASE key.rest = "type" -> type
          [] key.rest = "name" -> name
          [] key.rest = "family_name" -> family_name
          [] OTHER -> PyStr(<< "A" >>) ]

PersonRows ==
    { PersonRow(present, type, name, family_name) :
        present \in SUBSET PersonColumns,
        type \in PersonCells("type"),
        name \in PersonCells("name"),
        family_name \in PersonCells("family_name") }

\* person.get(key)
person_get(person, rest) ==
    IF rest \in DOMAIN person THEN person[rest] ELSE ItemNone

RECURSIVE load_creatibutor_from(_, _)
\* load_creatibutor: the person_or_org dict of every item of the group,
\* from item i on.
load_creatibutor_from(items, i) ==
    IF i > Len(items) THEN <<>>
    ELSE << [ type |-> person_get(items[i], "type"),
              family_name |-> person_get(items[i], "family_name"),
              name |-> person_get(items[i], "name") ] >>
         \o load_creatibutor_from(items, i + 1)

load_creatibutor(original, creatibutor_type) ==
    load_creatibutor_from(process_grouped_fields(original, creatibutor_type), 1)

\* PersonOrOrg: type is one of the two literals; family_name, given_name
\* and name are optional strings.
PersonOrOrg(person_or_org) ==
    /\ ~person_or_org.type.is_none
    /\ person_or_org.type.value \in { "personal", "organizational" }

RECURSIVE PersonErrors(_, _)
\* The errors of the creators list, one per person PersonOrOrg rejects.
PersonErrors(creators, i) ==
    IF i > Len(creators) THEN <<>>
    ELSE ( IF PersonOrOrg(creators[i]) THEN <<>>
           ELSE << [type |-> "literal_error", person |-> i] >> )
         \o PersonErrors(creators, i + 1)

\* MetadataSchema.additional_validation: no creator is an error.
additional_validation(creators, errors) ==
    IF creators = <<>>
    THEN Append(errors, [type |-> "no_creators_error", person |-> 0])
    ELSE errors

transform_result(creators, errors) ==
    IF errors = <<>>
    THEN [ has_data |-> TRUE, creators |-> creators, errors |-> <<>> ]
    ELSE [ has_data |-> FALSE, creators |-> <<>>, errors |-> errors ]

\* CSVRDMRecordSerializer.transform
transform(obj) ==
    transform_result(
        load_creatibutor(obj, "creators"),
        additional_validation(
            load_creatibutor(obj, "creators"),
            PersonErrors(load_creatibutor(obj, "creators"), 1)))

InitTransform ==
    /\ AtRest
    /\ verified = NoVerify
    /\ \E original \in PersonRows :
         grouped = [ original |-> original, prefix |-> "creators",
                     done |-> FALSE, output |-> <<>>,
                     transform |-> NoTransform ]

\* serializer.transform(row) returns.
Transform ==
    /\ ~grouped.done
    /\ grouped' = [grouped EXCEPT
                      !.done = TRUE,
                      !.output = load_creatibutor(grouped.original,
                                                  grouped.prefix),
                      !.transform = transform(grouped.original)]
    /\ UNCHANGED verified
    /\ StaysAtRest

NextTransform == Transform

SpecTransform == InitTransform /\ [][NextTransform]_vars

\* ------------------------------------------------------------------------
\* services/services.py: the metadata file of a task, on its own. A file
\* name is None or a string of at most MaxFilename characters; a key of
\* record.files is the base name followed by the characters of the
\* extension.
\* ------------------------------------------------------------------------
MaxFilename == 3

FilenameChars == {"c", "j", "."}

Filenames ==
    {NoFilename} \cup
    { [ is_none |-> FALSE, chars |-> chars ] :
        chars \in UNION { [1..n -> FilenameChars] : n \in 0..MaxFilename } }

Streams == {"s1", "s2"}

\* os.path.splitext(p)[1] for a name without path separators: the text from
\* the last dot on, when a character other than a dot precedes that dot.
splitext(p) ==
    IF \E i \in 1..Len(p) :
           /\ p[i] = "."
           /\ \A j \in (i + 1)..Len(p) : p[j] # "."
           /\ \E j \in 1..(i - 1) : p[j] # "."
    THEN SubSeq(p,
                CHOOSE i \in 1..Len(p) :
                    /\ p[i] = "."
                    /\ \A j \in (i + 1)..Len(p) : p[j] # ".",
                Len(p))
    ELSE <<>>

_get_file_extension(filename) ==
    IF ~filename.is_none /\ filename.chars # <<>>
    THEN [ is_none |-> FALSE, chars |-> splitext(filename.chars) ]
    ELSE [ is_none |-> TRUE, chars |-> <<>> ]

\* key.startswith(f"{file_name}.")
StartsWithDotted(key, file_name) ==
    Len(key) >= 2 /\ key[1] = file_name /\ key[2] = "."

\* The first key of record.files that starts with file_name and a dot;
\* the empty key stands for None.
_find_file_in_record(file_name, files) ==
    IF \E i \in 1..Len(files) : StartsWithDotted(files[i].key, file_name)
    THEN files[CHOOSE i \in 1..Len(files) :
                 /\ StartsWithDotted(files[i].key, file_name)
                 /\ \A j \in 1..(i - 1) :
                      ~StartsWithDotted(files[j].key, file_name)].key
    ELSE <<>>

\* key in record.files
HasKey(files, key) == \E i \in 1..Len(files) : files[i].key = key

\* record.files without the entry of the key.
Pop(files, key) == SelectSeq(files, LAMBDA f : f.key # key)

\* _read_file: FileNotFoundError when no key starts with file_name and a dot.
_read_file(files, file_name) ==
    IF HasKey(files, _find_file_in_record(file_name, files))
    THEN [ done |-> TRUE, raised |-> FALSE,
           stream |-> files[CHOOSE i \in 1..Len(files) :
                        files[i].key =
                            _find_file_in_record(file_name, files)].stream ]
    ELSE [ done |-> TRUE, raised |-> TRUE, stream |-> "" ]

\* _delete_file: pops the key found; FileNotFoundError when none is.
_delete_file(files, file_name) ==
    IF HasKey(files, _find_file_in_record(file_name, files))
    THEN [ raised |-> FALSE,
           files |-> Pop(files, _find_file_in_record(file_name, files)) ]
    ELSE [ raised |-> TRUE, files |-> files ]

\* record.files[key] = stream: the entry is updated in place or appended.
SetItem(files, key, stream) ==
    IF HasKey(files, key)
    THEN [ i \in 1..Len(files) |->
             IF files[i].key = key
             THEN [ key |-> key, stream |-> stream ] ELSE files[i] ]
    ELSE Append(files, [ key |-> key, stream |-> stream ])

full_file_name(file_name, file_extension) ==
    IF ~file_extension.is_none /\ file_extension.chars # <<>>
    THEN << file_name >> \o file_extension.chars
    ELSE << file_name >>

\* _update_file: the old file of a different extension is deleted first.
_update_file(files, stream, file_name, file_extension) ==
    IF /\ files # <<>>
       /\ ~HasKey(files, full_file_name(file_name, file_extension))
       /\ _find_file_in_record(file_name, files) # <<>>
    THEN SetItem(_delete_file(files, file_name).files,
                 full_file_name(file_name, file_extension), stream)
    ELSE SetItem(files, full_file_name(file_name, file_extension), stream)

InitFiles ==
    /\ AtRest
    /\ verified = NoVerify
    /\ grouped = NoGrouped

FilesOnly ==
    UNCHANGED << task, rows, records, repo, pendingValidate, pendingRun,
                 pendingFinalize, failures, calls, lastRun, lastRecompute,
                 verified, grouped >>

\* ImporterTaskService.update_metadata_file(identity, id_, filename, stream)
UpdateMetadataFile ==
    /\ \E filename \in Filenames, stream \in Streams :
         task_files' =
             [ files |-> _update_file(task_files.files, stream, "metadata",
                                      _get_file_extension(filename)),
               last |-> [ op |-> "update", filename |-> filename,
                          raised |-> FALSE ],
               read |-> NoRead ]
    /\ FilesOnly

\* ImporterTaskService.delete_metadata_file(identity, id_): the unit of work
\* commits nothing when _delete_file raises.
DeleteMetadataFile ==
    /\ task_files' =
           [ files |-> _delete_file(task_files.files, "metadata").files,
             last |-> [ op |-> "delete", filename |-> NoFilename,
                        raised |->
                            _delete_file(task_files.files, "metadata").raised ],
             read |-> NoRead ]
    /\ FilesOnly

\* ImporterTaskService.read_metadata_file(identity, id_)
ReadMetadataFile ==
    /\ task_files' = [task_files EXCEPT
                         !.read = _read_file(task_files.files, "metadata")]
    /\ FilesOnly

NextFiles ==
    \/ UpdateMetadataFile
    \/ DeleteMetadataFile
    \/ ReadMetadataFile

SpecFiles == InitFiles /\ [][NextFiles]_vars

\* ------------------------------------------------------------------------
\* Properties
\* ------------------------------------------------------------------------
Range(seq) == { seq[i] : i \in 1..Len(seq) }

\* The operations of the calls a run made that succeeded.
LogOps(st) == { st.log[i].op : i \in 1..Len(st.log) }

RunHappened == lastRun.rec # 0

\* The latest run unit worked on a record it read as validated.
ValidatedRun == RunHappened /\ lastRun.doc.status = "validated"

\* C1: a task that has a persisted records_status has the status the
\* calculator gives for that records_status (the status is never a literal).
C1_StatusIsCalculated ==
    task.has_records_status =>
        task.status = calculate_task_state(task.records_status)

\* begin_validation was the only external call and every unit it dispatched
\* has completed.
ValidationSettled ==
    /\ calls.begin_validation = 1
    /\ calls.begin_import = 0 /\ calls.start_run = 0 /\ calls.status_update = 0
    /\ \A r \in RecIds : pendingValidate[r] = 0 /\ pendingRun[r] = 0
    /\ pendingFinalize = 0

\* C2: once the validate units and the finalize unit of a begin_validation
\* have all completed, the persisted records_status holds the actual
\* per-status counts of the records, and total_records is the row count.
C2_SettledCountsAreActual ==
    ValidationSettled =>
        /\ task.has_records_status
        /\ task.records_status = get_importer_record_info(records)
        /\ task.records_status["total_records"] = Len(rows)

\* C3: a recompute_task_status that runs on the records the previous one ran
\* on (no record written in between) writes the same records_status and the
\* same status as the previous one.
C3_RecomputeIdempotent ==
    lastRecompute.same_input => lastRecompute.same_output

C3_Witness ==
    /\ lastRecompute.same_input
    /\ lastRecompute.unchanged
    /\ lastRecompute.records_status["total_records"] = 2
    /\ lastRecompute.status = "validated with failures"

\* C4: a run unit on a record that is not validated makes no repository
\* call and leaves the record's status, errors and generated_record_id as
\* they were.
C4_NonValidatedUntouched ==
    (RunHappened /\ lastRun.doc.status # "validated") =>
        /\ lastRun.run.log = <<>>
        /\ lastRun.repo_after = lastRun.repo_before
        /\ lastRun.after.status = lastRun.doc.status
        /\ lastRun.after.errors = lastRun.doc.errors
        /\ lastRun.after.generated_record_id = lastRun.doc.generated_record_id

\* C5: when a step of the run of a validated record raises, the record is
\* left in status import failed with errors and no generated_record_id.
C5_FailedRunPersisted ==
    (ValidatedRun /\ lastRun.run.raised) =>
        /\ lastRun.after.status = "import failed"
        /\ lastRun.after.errors # <<>>
        /\ lastRun.after.generated_record_id = 0

LifecycleOps == { "delete_record", "create", "new_version", "edit" }

\* The lifecycle calls a run attempted: those that succeeded and the one
\* that raised.
LifecycleAttempts(st) ==
    Cardinality({ i \in 1..Len(st.log) : st.log[i].op \in LifecycleOps })
      + IF st.failed.op \in LifecycleOps THEN 1 ELSE 0

ExpectedLifecycleOp(mode, existing_record_id, validated_record_files) ==
    IF mode = "delete" THEN "delete_record"
    ELSE IF existing_record_id = 0 THEN "create"
    ELSE IF validated_record_files # <<>> THEN "new_version"
    ELSE "edit"

\* C6: the run of a validated record attempts exactly one lifecycle call:
\* delete in delete mode; in import mode create without existing_record_id,
\* new version with existing_record_id and validated files, new revision
\* (edit) with existing_record_id and no validated file.
C6_OneLifecycleAction ==
    ValidatedRun =>
        /\ LifecycleAttempts(lastRun.run) = 1
        /\ ExpectedLifecycleOp(lastRun.mode, lastRun.doc.existing_record_id,
                               lastRun.doc.validated_record_files)
             \in LogOps(lastRun.run) \cup { lastRun.run.failed.op }

C6_Witness ==
    /\ ValidatedRun
    /\ lastRun.mode = "import"
    /\ lastRun.doc.existing_record_id = 1
    /\ lastRun.doc.validated_record_files # <<>>
    /\ lastRun.run.log # <<>>
    /\ lastRun.run.log[1].op = "new_version"

\* C7: when a step of a run raises, the repository after the run is the
\* repository before the run.
C7_FailedRunRolledBack ==
    (RunHappened /\ lastRun.run.raised) =>
        lastRun.repo_after = lastRun.repo_before

FileOps == { "set_file_content", "commit_file" }

PublishOps == { "publish", "review.update", "submit", "accept" }

\* The latest run had a set_file_content or commit_file call raise.
FileFailed == RunHappened /\ lastRun.run.failed.op \in FileOps

FileIndex(files, key) == CHOOSE i \in 1..Len(files) : files[i].key = key

\* C8: when streaming or committing a file raises, a file_add_error is
\* recorded, no call for a later file of the batch is made and no publish,
\* review, submit or accept call is made in that run.
C8_FileFailureAborts ==
    FileFailed =>
        LET files == lastRun.doc.validated_record_files
            st == lastRun.run
        IN  /\ "file_add_error" \in Range(st.errors)
            /\ LogOps(st) \cap PublishOps = {}
            /\ \A i \in 1..Len(st.log) :
                 st.log[i].op \in FileOps =>
                     FileIndex(files, st.log[i].arg)
                       <= FileIndex(files, st.failed.arg)

C8_Witness ==
    /\ FileFailed
    /\ Len(lastRun.doc.validated_record_files) = 2
    /\ lastRun.run.failed.arg = "a.txt"
    /\ lastRun.doc.community_uuids.present

\* C9: with options publish = false, the import-mode run of a validated
\* record makes no publish call and no accept call, and a run in which
\* nothing raised leaves an unpublished draft and counts as successful.
C9_NoPublishWhenDisabled ==
    (ValidatedRun /\ lastRun.mode = "import" /\ ~lastRun.publish) =>
        /\ LogOps(lastRun.run) \cap { "publish", "accept" } = {}
        /\ ~lastRun.run.raised =>
             /\ lastRun.run.errors = <<>>
             /\ ( lastRun.repo_after[lastRun.run.item].state = "draft"
                  \/ lastRun.repo_after[lastRun.run.item].edit_draft )

\* A validated row without community was run through the create path with
\* publish enabled and nothing raised.
CreatedWithoutCommunity ==
    /\ ValidatedRun
    /\ lastRun.mode = "import"
    /\ lastRun.publish
    /\ lastRun.doc.src_data.comms = <<>>
    /\ lastRun.doc.existing_record_id = 0
    /\ ~lastRun.run.raised

\* C10: a row that declares no community, validated and run through the
\* create path with publish enabled, is published globally: the publish
\* call is made for the created record, no community review is opened, and
\* the record is published outside any community.
C10_PublishedGlobally ==
    CreatedWithoutCommunity =>
        LET st == lastRun.run
        IN  /\ ServiceCall("publish", st.item, "") \in Range(st.log)
            /\ "review.update" \notin LogOps(st)
            /\ lastRun.repo_after[st.item].state = "published"
            /\ lastRun.repo_after[st.item].community = ""

C10_Witness ==
    /\ CreatedWithoutCommunity
    /\ lastRun.run.item > 1
    /\ lastRun.repo_after[lastRun.run.item].state = "published"

\* C11: however often begin_validation was invoked on the unchanged source
\* file, the task holds exactly one importer record per source row.
C11_OneRecordPerRow ==
    calls.begin_validation >= 1 =>
        /\ Len(records) = Len(rows)
        /\ \A i \in 1..Len(rows) : records[i].src_data = rows[i]

\* A validate unit of importer record r completes in this step.
ValidateCompletes(r) == pendingValidate'[r] < pendingValidate[r]

ValidatedOutcome_Ok(d) ==
    d.status = "validated" /\ d.errors = <<>> /\ d.transformed_data # "none"

ValidatedOutcome_Failed(d) ==
    /\ d.status \in { "serializer validation failed", "validation failed" }
    /\ d.errors # <<>>

\* C12: when the validate unit of a record completes, the record is either
\* validated with no error and transformed_data populated, or in one of the
\* two failed statuses with errors, and not both.
C12_ValidateOutcome ==
    [][ \A r \in RecIds :
          ValidateCompletes(r) =>
              /\ ValidatedOutcome_Ok(records'[r])
                   \/ ValidatedOutcome_Failed(records'[r])
              /\ ~( ValidatedOutcome_Ok(records'[r])
                    /\ ValidatedOutcome_Failed(records'[r]) ) ]_vars

\* The validation phase of a one-call task is over and no run was started.
OnlyValidated ==
    /\ calls.begin_validation = 1
    /\ calls.begin_import = 0 /\ calls.start_run = 0
    /\ \A r \in RecIds : pendingValidate[r] = 0

C12_Witness ==
    /\ OnlyValidated
    /\ Len(records) = 2
    /\ records[1].status = "validated"
    /\ records[2].status = "serializer validation failed"

\* C13: when the validate unit of a record completes in a failed status,
\* the record carries no transformed_data: serializer validation failed has
\* neither serializer_data nor transformed_data, validation failed has
\* serializer_data and no transformed_data.
C13_FailedHasNoTransformedData ==
    [][ \A r \in RecIds :
          ValidateCompletes(r) =>
              /\ records'[r].status = "serializer validation failed" =>
                   /\ records'[r].serializer_data = "none"
                   /\ records'[r].transformed_data = "none"
              /\ records'[r].status = "validation failed" =>
                   /\ records'[r].serializer_data # "none"
                   /\ records'[r].transformed_data = "none" ]_vars

FileErrors == { "file_not_accessible", "file_not_found" }

\* The position of the first error of one of the types in errors (0: none).
FirstError(errors, types) ==
    IF \E i \in 1..Len(errors) : errors[i] \in types
    THEN CHOOSE i \in 1..Len(errors) :
             /\ errors[i] \in types
             /\ \A j \in 1..(i - 1) : errors[j] \notin types
    ELSE 0

\* The row has a file reference that is not reachable, a community the
\* registry does not know and data the record schema rejects.
ThreeFaults(row) ==
    /\ row.ser_errors = <<>>
    /\ \E i \in 1..Len(row.files) : row.files[i].check # "ok"
    /\ \E i \in 1..Len(row.comms) : row.comms[i] \notin Communities
    /\ ~row.schemaOk

\* C14: in import mode, when the validate unit of a row with a bad file, a
\* bad community and a schema fault completes, the errors of the record
\* hold a file error, then a community_not_found, then a validation_error.
C14_AllChecksReport ==
    [][ \A r \in RecIds :
          ( ValidateCompletes(r) /\ task.mode = "import"
            /\ ThreeFaults(records[r].src_data) ) =>
              LET errors == records'[r].errors
              IN  /\ 0 < FirstError(errors, FileErrors)
                  /\ FirstError(errors, FileErrors)
                       < FirstError(errors, { "community_not_found" })
                  /\ FirstError(errors, { "community_not_found" })
                       < FirstError(errors, { "validation_error" }) ]_vars

C14_Witness ==
    /\ OnlyValidated
    /\ task.mode = "import"
    /\ Len(records) = 1
    /\ ThreeFaults(records[1].src_data)
    /\ records[1].status = "validation failed"
    /\ Len(records[1].errors) = 3

\* C15: when a step of the run of a validated record raises, run returns no
\* record and leaves errors; unexpected_error is among them exactly when no
\* other error was recorded, that is when it is the only error.
C15_UnexpectedErrorIffNoOther ==
    (ValidatedRun /\ lastRun.run.raised) =>
        /\ lastRun.run.item = 0
        /\ lastRun.run.errors # <<>>
        /\ "unexpected_error" \in Range(lastRun.run.errors)
             <=> lastRun.run.errors = << "unexpected_error" >>

C15_Witness ==
    /\ ValidatedRun
    /\ lastRun.run.raised
    /\ lastRun.run.failed.op = "publish"
    /\ lastRun.run.errors = << "unexpected_error" >>

\* A run unit of importer record r completes in this step.
RunCompletes(r) == pendingRun'[r] < pendingRun[r]

\* C16: a run unit of one record leaves the task document and every other
\* importer record of the task as they were, whether the run failed or not.
C16_RunTouchesOnlyItsRecord ==
    [][ \A r \in RecIds :
          RunCompletes(r) =>
              /\ task' = task
              /\ Len(records') = Len(records)
              /\ \A q \in 1..Len(records) :
                   q # r => records'[q] = records[q] ]_vars

C16_Witness ==
    /\ RunHappened
    /\ lastRun.rec = 1
    /\ lastRun.run.raised
    /\ Len(records) = 2
    /\ records[2].status = "validated"
    /\ records[2].errors = <<>>

\* The calculator was applied to the distribution the task holds.
Calculated == calls.status_update = 1 /\ calls.begin_validation = 0

Count(state) == task.records_status[state]

\* C17: the calculator returns created for a task without records and for
\* a task whose records are all in status created.
C17_CreatedWhenNoneOrAllCreated ==
    ( Calculated
      /\ ( Count("total_records") = 0
           \/ Count("created") = Count("total_records") ) ) =>
        task.status = "created"

C17_Witness ==
    /\ Calculated
    /\ Count("total_records") = 2
    /\ Count("created") = 2
    /\ task.status = "created"

\* C18: the calculator returns validating when at least one record is in
\* status created and at least one is in status serializer validation
\* failed, validation failed or validated.
C18_ValidatingWhenMixed ==
    ( Calculated
      /\ Count("created") > 0
      /\ ( Count("serializer validation failed") > 0
           \/ Count("validation failed") > 0
           \/ Count("validated") > 0 ) ) =>
        task.status = "validating"

\* C19: the calculator returns validated with failures when no record is in
\* status created and at least one is in status serializer validation
\* failed or validation failed, whatever the other counts.
C19_FailuresWhenNoneCreated ==
    ( Calculated
      /\ Count("created") = 0
      /\ ( Count("serializer validation failed") > 0
           \/ Count("validation failed") > 0 ) ) =>
        task.status = "validated with failures"

C19_Witness ==
    /\ Calculated
    /\ Count("created") = 0
    /\ Count("serializer validation failed") = 1
    /\ Count("validated") = 2
    /\ Count("success") = 1
    /\ Count("import failed") = 1
    /\ task.status = "validated with failures"

\* C20: the calculator returns validated when the task has at least one
\* record and all its records are in status validated.
C20_ValidatedWhenAllValidated ==
    ( Calculated
      /\ Count("total_records") >= 1
      /\ Count("validated") = Count("total_records") ) =>
        task.status = "validated"

C20_Witness ==
    /\ Calculated
    /\ Count("total_records") = 2
    /\ Count("validated") = 2
    /\ task.status = "validated"

\* C21: the calculator returns importing when no record is in status
\* created, serializer validation failed or validation failed, at least one
\* is in status validated and at least one is in status import failed or
\* success.
C21_ImportingWhenValidatedAndImported ==
    ( Calculated
      /\ Count("created") = 0
      /\ Count("serializer validation failed") = 0
      /\ Count("validation failed") = 0
      /\ Count("validated") > 0
      /\ ( Count("import failed") > 0 \/ Count("success") > 0 ) ) =>
        task.status = "importing"

C21_Witness ==
    /\ Calculated
    /\ Count("created") = 0
    /\ Count("validated") = 1
    /\ Count("import failed") = 1
    /\ Count("success") = 0
    /\ task.status = "importing"

\* C22: the calculator returns imported with failures when no record is in
\* status created, serializer validation failed, validation failed or
\* validated and at least one is in status import failed, also when other
\* records are in status success.
C22_ImportFailedWhenNoneValidated ==
    ( Calculated
      /\ Count("created") = 0
      /\ Count("serializer validation failed") = 0
      /\ Count("validation failed") = 0
      /\ Count("validated") = 0
      /\ Count("import failed") > 0 ) =>
        task.status = "imported with failures"

C22_Witness ==
    /\ Calculated
    /\ Count("total_records") = 3
    /\ Count("import failed") = 2
    /\ Count("success") = 1
    /\ task.status = "imported with failures"

\* C23 as stated: the calculator returns imported with failures only when
\* import failures are present, no record is in status success and no
\* record is left unvalidated (in status created).
C23_ImportFailedOnlyWithoutSuccess ==
    ( Calculated /\ task.status = "imported with failures" ) =>
        /\ Count("import failed") > 0
        /\ Count("success") = 0
        /\ Count("created") = 0

\* C23 as amended: the calculator returns imported with failures only when
\* import failures are present and no record is left unvalidated or
\* unimported (in status created, serializer validation failed, validation
\* failed or validated); records in status success may be present.
C23_ImportFailedOnlyWhenNoneValidated ==
    ( Calculated /\ task.status = "imported with failures" ) =>
        /\ Count("import failed") > 0
        /\ Count("created") = 0
        /\ Count("serializer validation failed") = 0
        /\ Count("validation failed") = 0
        /\ Count("validated") = 0

C23_Witness ==
    /\ Calculated
    /\ task.status = "imported with failures"
    /\ Count("import failed") = 1
    /\ Count("success") = 2
    /\ Count("total_records") = 3

\* C24: for a distribution whose counts sum to total_records the calculator
\* returns success exactly when the task has at least one record and all
\* its records are in status success.
C24_SuccessIffAllSucceeded ==
    Calculated =>
        ( task.status = "success"
            <=> ( Count("total_records") >= 1
                  /\ Count("success") = Count("total_records") ) )

C24_Witness ==
    /\ Calculated
    /\ Count("total_records") = 2
    /\ Count("success") = 2
    /\ task.status = "success"

\* _verify_communities_exist returned for the communities of verified.
CommunitiesVerified == verified.step = "communities"

\* _verify_files_accessible returned for the files of verified.
FilesVerified == verified.step = "files"

\* C25: when the deployment requires a community to publish and the list of
\* communities is empty, community verification records exactly one error,
\* of type community_not_provided, and resolves no community.
C25_CommunityRequired ==
    ( CommunitiesVerified
      /\ verified.is_community_required
      /\ verified.communities = <<>> ) =>
        /\ verified.rt.errors = << "community_not_provided" >>
        /\ ~verified.rt.is_successful
        /\ verified.rt.community_uuids.default = ""
        /\ verified.rt.community_uuids.ids = <<>>

C25_Witness ==
    /\ CommunitiesVerified
    /\ verified.is_community_required
    /\ verified.communities = <<>>
    /\ verified.rt.errors = << "community_not_provided" >>

Resolvable(slug) == slug \in Communities

\* The first slug of the list that the registry resolves ("": none does).
FirstResolvable(communities) ==
    LET found == SelectSeq(communities, Resolvable)
    IN  IF found = <<>> THEN "" ELSE found[1]

\* C26: after community verification the default community is the first
\* slug of the list that resolves, also when slugs before it do not; it is
\* null only when no slug resolves.
C26_DefaultIsFirstResolvable ==
    CommunitiesVerified =>
        verified.rt.community_uuids.default
            = FirstResolvable(verified.communities)

CheckFailed(file) == file.check # "ok"

CheckPassed(file) == file.check = "ok"

\* The origin a reference has by its prefix.
OriginByPrefix(file) ==
    CASE file.scheme \in {"http", "https"} -> "url"
      [] file.scheme = "s3" -> "s3"
      [] file.scheme = "gs" -> "gs"
      [] OTHER -> "local"

\* C27: file verification records one error per reference whose check
\* failed and keeps that reference out of the validated files, whatever
\* its origin; the references after it are still checked, so the validated
\* files are exactly the references whose check passed, in order.
C27_FailedFileExcluded ==
    FilesVerified =>
        LET passed == SelectSeq(verified.files, CheckPassed)
            failed == SelectSeq(verified.files, CheckFailed)
        IN  /\ Len(verified.rt.errors) = Len(failed)
            /\ Len(verified.rt.validated_files) = Len(passed)
            /\ \A i \in 1..Len(passed) :
                    verified.rt.validated_files[i].key = passed[i].name

\* C28: a reference is classified by its prefix; the origin stored on a
\* validated file is that classification, and a failed check records
\* file_not_found for a local reference and file_not_accessible for a url,
\* s3 or gs reference.
C28_OriginAndErrorType ==
    FilesVerified =>
        LET failed == SelectSeq(verified.files, CheckFailed)
        IN  /\ \A i \in 1..Len(verified.rt.validated_files) :
                 \E j \in 1..Len(verified.files) :
                    /\ verified.files[j].name
                         = verified.rt.validated_files[i].key
                    /\ verified.rt.validated_files[i].origin
                         = OriginByPrefix(verified.files[j])
            /\ verified.rt.errors =
                 [ i \in 1..Len(failed) |->
                     IF OriginByPrefix(failed[i]) = "local"
                     THEN "file_not_found" ELSE "file_not_accessible" ]

C28_Witness ==
    /\ FilesVerified
    /\ verified.files = << FileRef("ftp", "ftp://h/f.txt", "exception"),
                           FileRef("https", "v.txt", "ok") >>
    /\ verified.rt.errors = << "file_not_found" >>
    /\ Len(verified.rt.validated_files) = 1
    /\ verified.rt.validated_files[1].origin = "url"

\* The cells of the group columns of the processed row.
GroupCells ==
    { grouped.original[key] :
        key \in group_input(grouped.original, grouped.prefix) }

Blank(line) == strip(line) = ""

\* Every group column holds n lines, none of them blank.
FullyPopulated(n) ==
    /\ GroupCells # {}
    /\ \A cell \in GroupCells :
          /\ ~cell.is_none
          /\ Len(cell.lines) = n
          /\ \A i \in 1..n : ~Blank(cell.lines[i])

\* C29: when every column of the group holds N non-blank lines,
\* process_grouped_fields returns N items and item i holds line i of every
\* column of the group, under the column title without the prefix.
C29_OneItemPerLine ==
    \A n \in 1..MaxLines :
        ( grouped.done /\ FullyPopulated(n) ) =>
            /\ Len(grouped.output) = n
            /\ \A i \in 1..n :
                 \A key \in group_input(grouped.original, grouped.prefix) :
                    /\ key.rest \in DOMAIN grouped.output[i]
                    /\ grouped.output[i][key.rest]
                         = ItemValue(grouped.original[key].lines[i])

C29_Witness ==
    /\ grouped.done
    /\ FullyPopulated(2)
    /\ Cardinality(group_input(grouped.original, grouped.prefix)) = 2
    /\ Len(grouped.output) = 2
    /\ grouped.output[1]["name"] # grouped.output[2]["name"]

\* The slices at which a column of the group that has a value holds a line
\* that is not blank.
FilledSlices ==
    { i \in 1..MaxLines :
        \E cell \in GroupCells :
            /\ ~cell.is_none
            /\ i <= Len(cell.lines)
            /\ ~Blank(cell.lines[i]) }

\* C30: a group column whose cell is empty or missing contributes no value
\* and does not keep the other columns of the group from giving items:
\* process_grouped_fields returns one item per slice at which a column
\* that has a value holds a line that is not blank.
C30_MissingCellKeepsItems ==
    grouped.done => Len(grouped.output) = Cardinality(FilledSlices)

\* Person i of the transformed row breaks the rule of its type: it is
\* organizational without a name or personal without a family name.
BreaksTypeRule(person_or_org) ==
    /\ ~person_or_org.type.is_none
    /\ \/ /\ person_or_org.type.value = "organizational"
          /\ person_or_org.name.is_none
       \/ /\ person_or_org.type.value = "personal"
          /\ person_or_org.family_name.is_none

\* C31: when a creator of the row is organizational with a blank name or
\* personal with a blank family name, transform returns no data and an
\* error for that person.
C31_TypeRuleIsValidationError ==
    grouped.done =>
        \A i \in 1..Len(grouped.output) :
            BreaksTypeRule(grouped.output[i]) =>
                /\ ~grouped.transform.has_data
                /\ \E e \in Range(grouped.transform.errors) : e.person = i

\* A begin_import call is made in the step.
BeginImportCalled == calls'.begin_import > calls.begin_import

\* C32: begin_import dispatches one run unit for every record of the task
\* that is in status validated, none for a record in another status, and
\* one finalize unit.
C32_RunUnitsForValidatedOnly ==
    [][ BeginImportCalled =>
          /\ \A r \in RecIds :
                pendingRun'[r] - pendingRun[r] =
                    IF r \in 1..Len(records) /\ records[r].status = "validated"
                    THEN 1 ELSE 0
          /\ pendingFinalize' = pendingFinalize + 1 ]_vars

\* C33: when the validate unit of a record completes, the record is
\* validated with an existing_record_id only if the repository holds that
\* identifier as a record or a draft; when the row declares an identifier
\* the repository does not hold, the record gets an
\* existing_record_not_found error and status validation failed.
C33_TargetMustExist ==
    [][ \A r \in RecIds :
          ValidateCompletes(r) =>
              /\ ( records'[r].status = "validated"
                   /\ records'[r].existing_record_id # 0 ) =>
                     RepoHas(repo, records'[r].existing_record_id)
              /\ ( records[r].src_data.ser_errors = <<>>
                   /\ records[r].src_data.id # 0
                   /\ ~RepoHas(repo, records[r].src_data.id) ) =>
                     /\ "existing_record_not_found"
                          \in Range(records'[r].errors)
                     /\ records'[r].status = "validation failed" ]_vars

C33_Witness ==
    /\ OnlyValidated
    /\ Len(records) = 1
    /\ records[1].src_data = RowUnknownTarget
    /\ records[1].status = "validation failed"
    /\ records[1].errors = << "existing_record_not_found" >>

\* C34: the task holds at most one metadata file after any sequence of
\* update_metadata_file and delete_metadata_file calls, and
\* read_metadata_file raises FileNotFoundError when the latest of those
\* calls was a delete.
C34_AtMostOneMetadataFile ==
    /\ Len(task_files.files) <= 1
    /\ ( task_files.last.op = "delete" /\ task_files.read.done ) =>
           task_files.read.raised

\* The status the latest run unit handed to records_service.update.
RunUpdateStatus == RunDict(lastRun.doc, lastRun.run).status

\* C35: every importer record has one of the seven ImporterRecordState
\* values as status and the task one of the eight ImporterTaskState values,
\* whatever the calculator returned; an update that carries another status
\* is rejected and leaves the document as it was.
C35_StatusesWithinEnums ==
    /\ \A r \in 1..Len(records) : records[r].status \in ImporterRecordState
    /\ task.status \in ImporterTaskState
    /\ ( RunHappened /\ RunUpdateStatus \notin ImporterRecordState ) =>
           lastRun.after = lastRun.doc

C35_Witness ==
    /\ ValidatedRun
    /\ RunUpdateStatus = "creation failed"
    /\ lastRun.after = lastRun.doc
    /\ task.status = "importing"

\* C36: for a distribution whose records are all in the six counted
\* statuses (none in validating), total_records being the sum of the
\* counts, the calculator does not return damaged.
C36_NeverDamagedOnCountedStatuses ==
    ( Calculated /\ Count("validating") = 0 ) => task.status # "damaged"

C36_Witness ==
    /\ Calculated
    /\ Count("validating") = 0
    /\ \A k \in ImporterRecordState \ {"validating"} : Count(k) = 1
    /\ task.status = "validating"

\* The repository entries (records, drafts and new versions) the run units
\* of importer record r created.
CreatedBy(r) == { i \in 1..Len(repo) : repo[i].source = r }

\* C37: whatever the order of the run units, and also when two run units
\* were dispatched for the same record, the run units of one importer
\* record create at most one repository record.
C37_AtMostOneRecordPerImporterRecord ==
    \A r \in 1..Len(records) : Cardinality(CreatedBy(r)) <= 1

\* C38: every importer record in status success has a generated_record_id,
\* and it is the identifier of a record of the repository.
C38_SuccessHasGeneratedRecord ==
    \A r \in 1..Len(records) :
        records[r].status = "success" =>
            /\ records[r].generated_record_id # 0
            /\ records[r].generated_record_id \in 1..Len(repo)

====
